---- MODULE Spec2Model ----
(***************************************************************************)
(* Outbox synchronisation engine of sine-shin (src-tauri/src/sync/mod.rs)  *)
(* together with the business commands that feed it                        *)
(* (src-tauri/src/commands/{expense,customer,order,shop}.rs).              *)
(*                                                                         *)
(* The local database (sync_queue, sync_sessions, sync_config, users and   *)
(* the business tables) is persistent state; the mutex of AppDb, the       *)
(* dispatcher loop and the spawned process_sync_queue tasks are in-memory  *)
(* state that a crash discards.  Time advances in steps of the loop's      *)
(* sleep period.  httpLog records every request the Session Runner sent    *)
(* and the answer it got; ret is the result of the command executed by the *)
(* last step (cmd = "none" after an internal step).                        *)
(***************************************************************************)
EXTENDS Integers, Sequences, FiniteSets, TLC

\* ---------------------------------------------------------------- bounds
MaxQueue == 2        \* outbox ids handed out
MaxSessions == 2     \* session ids handed out
MaxConfigs == 1      \* sync_config ids handed out
MaxHttp == 3         \* requests recorded in httpLog
MaxTime == 1         \* clock steps (each SleepSecs long)
MaxCrashes == 1      \* unclean shutdowns
MaxVer == 2          \* content versions of a business row
MaxRows == 1         \* ids handed out per business table
MaxItems == 1        \* order lines given to one order command
MaxSpawn == 1        \* spawned process_sync_queue tasks alive at once

\* ------------------------------------------------------ program constants
MaxRetries == 5
SleepSecs == 5
DefaultInterval == 30
KeepRows == 100

NULL == "NULL"
NoTime == -1
NoStatus == -1
NoHash == <<>>
NoTask == -1
LoopTask == 0
TransportError == 0

Tables == {"customers", "orders", "order_items", "expenses", "shop_settings"}
Operations == {"INSERT", "UPDATE", "DELETE"}
Spawned == 1..MaxSpawn
Tasks == {LoopTask} \cup Spawned
Responses == {204, 500, TransportError}
Urls == {"urlA", "urlB"}
Secrets == {"s1", "s2"}
Passwords == {"pw1", "pw2"}

SeqNames == {"sync_queue", "sync_sessions", "sync_config"} \cup Tables

VARIABLES
    sync_queue,      \* rows of table sync_queue
    sync_sessions,   \* rows of table sync_sessions
    sync_config,     \* rows of table sync_config
    users,           \* the owner row of table users
    rows,            \* rows of the synced business tables
    seq,             \* AUTOINCREMENT counters
    lock,            \* holder of the AppDb mutex
    task,            \* process_sync_queue invocations (loop and spawned)
    last_sync,       \* start_sync_loop's last_sync
    wake_at,         \* end of the loop's current sleep
    now,             \* wall clock, seconds
    httpLog,         \* requests sent to the remote, with the answers
    ret,             \* result of the command run by the last step
    crashes          \* unclean shutdowns so far

vars == <<sync_queue, sync_sessions, sync_config, users, rows, seq, lock, task,
          last_sync, wake_at, now, httpLog, ret, crashes>>

dbVars == <<sync_queue, sync_sessions, sync_config, users, rows, seq>>

\* ------------------------------------------------------------- helpers
Max(a, b) == IF a >= b THEN a ELSE b

\* result of a command: Ok or Err(err); fault is the storage fault the
\* environment injected into the command ("none" when every statement worked)
\* arg is the secret a command was given ("none" for the other commands)
NoRet == [cmd |-> "none", ok |-> TRUE, err |-> "none", fault |-> "none", val |-> 0, arg |-> "none"]
OkVal(c, f, v) == [NoRet EXCEPT !.cmd = c, !.fault = f, !.val = v]
Ok(c, f) == OkVal(c, f, 0)
Err(c, e, f) == [NoRet EXCEPT !.cmd = c, !.ok = FALSE, !.err = e, !.fault = f]
WithArg(r, a) == [r EXCEPT !.arg = a]

\* (behind is a record of the past, not a value the program holds: whether a
\* pass was in flight when this invocation was spawned)
IdleTask == [pc |-> "idle", url |-> NULL, session_id |-> 0, items |-> <<>>,
             idx |-> 1, req |-> 0, total_synced |-> 0, total_failed |-> 0,
             behind |-> FALSE]

CanLockAlways(l) == TRUE

\* tokio::sync::Mutex: lock().await completes only when nobody holds it
CanLock(l) == l = NoTask

\* reqwest StatusCode::is_success, with the arms of the match on the result
IsSuccessAnyAnswer(code) == code # TransportError
IsSuccess(code) == (code >= 200 /\ code < 300) \/ code = 201 \/ code = 204

EligiblePendingOnly(e) == e.status = "pending"
EligibleAnyFailed(e) == e.status \in {"pending", "failed"}
EligibleFailedOnly(e) == e.status = "failed" /\ e.retry_count < MaxRetries

\* WHERE status = 'pending' OR (status = 'failed' AND retry_count < 5)
Eligible(e) == e.status = "pending" \/ (e.status = "failed" /\ e.retry_count < MaxRetries)

AnyOrder(S, key) ==
    {f \in [1..Cardinality(S) -> S] : \A i, j \in 1..Cardinality(S) : i # j => f[i] # f[j]}

\* all the orders ORDER BY <key> ASC may return the rows of S in
RECURSIVE OrderedBy(_, _)
OrderedBy(S, key) ==
    IF S = {} THEN {<<>>}
    ELSE LET m == CHOOSE x \in {r[key] : r \in S} : \A r \in S : x <= r[key]
             firsts == {r \in S : r[key] = m}
         IN  UNION {{<<f>> \o rest : rest \in OrderedBy(S \ {f}, key)} : f \in firsts}

load_oldest_config == {c \in sync_config : \A d \in sync_config : d.id >= c.id}
load_latest_config == {c \in sync_config : \A d \in sync_config : d.id <= c.id}

\* the active config load_sync_config returns (a set: empty for None):
\* WHERE is_active = 1 ORDER BY id DESC LIMIT 1
ActiveConfigs == {c \in sync_config : c.is_active}
load_sync_config == {c \in ActiveConfigs : \A d \in ActiveConfigs : d.id <= c.id}

KeepAll(S, key) == {S}
KeepLowestIds(S, key) == {{r \in S : Cardinality({q \in S : q.id < r.id}) < KeepRows}}

\* DELETE ... WHERE id NOT IN (SELECT id ... ORDER BY key DESC LIMIT 100):
\* the sets of rows of S that may survive (ties at the cut are the engine's choice)
KeepLatest(S, key) ==
    IF Cardinality(S) <= KeepRows THEN {S}
    ELSE LET above(r) == {q \in S : q[key] > r[key]}
             sure == {r \in S : Cardinality(above(r)) + Cardinality({q \in S : q[key] = r[key]}) <= KeepRows}
             cut == {r \in S \ sure : Cardinality(above(r)) < KeepRows}
         IN  {sure \cup T : T \in {U \in SUBSET cut : Cardinality(sure) + Cardinality(U) = KeepRows}}

\* argon2 hash_password / verify_password: a hash verifies exactly the
\* password it was derived from
Argon2Hash(pw) == <<"argon2id", pw>>
Argon2VerifyAny(pw, h) == TRUE
Argon2Verify(pw, h) == h = Argon2Hash(pw)
BcryptVerifyAny(pw, h) == TRUE
BcryptVerify(pw, h) == h = <<"bcrypt", pw>>

\* ------------------------------------------------------------- initial state
Init ==
    /\ sync_queue = {}
    /\ sync_sessions = {}
    /\ sync_config = {}
    /\ users = [password_hash |-> <<"bcrypt", "pw1">>, master_password_hash |-> NoHash]
    /\ rows = {}
    /\ seq = [n \in SeqNames |-> 0]
    /\ lock = NoTask
    /\ task = [t \in Tasks |-> IdleTask]
    /\ last_sync = NoTime
    /\ wake_at = SleepSecs
    /\ now = 0
    /\ httpLog = <<>>
    /\ ret = NoRet
    /\ crashes = 0

\* ------------------------------------------------------------- enqueue_sync
NewEntry(id, table, op, record_id, payload) ==
    [id |-> id, table_name |-> table, operation |-> op, record_id |-> record_id,
     payload |-> payload, status |-> "pending", retry_count |-> 0,
     error_message |-> NULL, created_at |-> now, synced_at |-> NoTime]

\* what enqueue_sync returns to its caller when its INSERT failed or not:
\* nothing either way (the result of db_query! is dropped)
EnqueuePropagatesFailure(failed) == failed
EnqueuePropagates(failed) == FALSE

\* one call: the queue and its id counter after INSERT INTO sync_queue
enqueue_sync(st, call, failed) ==
    IF failed THEN st
    ELSE [q |-> st.q \cup {NewEntry(st.n + 1, call.table, call.op, call.record_id, call.payload)},
          n |-> st.n + 1]

\* the calls of one command, in order; F is the set of calls whose INSERT fails
RECURSIVE EnqueueAll(_, _, _, _)
EnqueueAll(st, calls, i, F) ==
    IF i > Len(calls) THEN st
    ELSE EnqueueAll(enqueue_sync(st, calls[i], i \in F), calls, i + 1, F)

Call(table, op, r) ==
    [table |-> table, op |-> op, record_id |-> r.id,
     payload |-> [id |-> r.id, ver |-> r.ver, deleted |-> r.deleted]]

\* the rows of a set in rowid order
RECURSIVE ById(_)
ById(S) ==
    IF S = {} THEN <<>>
    ELSE LET r == CHOOSE x \in S : \A y \in S : x.id <= y.id
         IN  <<r>> \o ById(S \ {r})

Row(table, id) == {r \in rows : r.tbl = table /\ r.id = id}
NewRow(table, id, parent) ==
    [tbl |-> table, id |-> id, ver |-> 1, deleted |-> FALSE, synced |-> FALSE, order_id |-> parent]

\* UPDATE of the columns of a row; soft delete (deleted_at and updated_at change)
Updated(r) == [r EXCEPT !.ver = @ + 1]
SoftDeleted(r) == [r EXCEPT !.ver = @ + 1, !.deleted = TRUE]

\* a command that ran its writes, then its enqueue calls, then returned
\* (the mutex is taken at the start and released at the return)
Command(name, newRows, newSeq, calls, F, result) ==
    LET st == EnqueueAll([q |-> sync_queue, n |-> seq["sync_queue"]], calls, 1, F)
    IN  /\ CanLock(lock)
        /\ rows' = newRows
        /\ sync_queue' = st.q
        /\ seq' = [newSeq EXCEPT !["sync_queue"] = st.n]
        /\ ret' = IF \E i \in F : i <= Len(calls) /\ EnqueuePropagates(TRUE)
                  THEN Err(name, "enqueue", "enqueue") ELSE result
        /\ UNCHANGED <<sync_sessions, sync_config, users, lock, task, last_sync,
                       wake_at, now, httpLog, crashes>>

\* a command that returned before it took the mutex
Rejected(name, e) ==
    /\ ret' = Err(name, e, "none")
    /\ UNCHANGED <<dbVars, lock, task, last_sync, wake_at, now, httpLog, crashes>>

\* -------------------------------------------------- commands/expense.rs
create_expense ==
    \E fault \in {"none", "validation", "insert", "update", "select", "enqueue"} :
        LET id == seq["expenses"] + 1
            r == NewRow("expenses", id, 0)
            name == "create_expense"
        IN  CASE fault = "validation" ->
                     Rejected(name, "validation")
                  [] fault = "insert" ->
                     Command(name, rows, seq, <<>>, {}, Err(name, "db", fault))
                  [] fault = "update" ->
                     Command(name, rows \cup {r}, [seq EXCEPT !["expenses"] = id], <<>>, {},
                             Err(name, "db", fault))
                  [] fault = "select" ->
                     Command(name, rows \cup {r}, [seq EXCEPT !["expenses"] = id], <<>>, {},
                             Ok(name, fault))
                  [] OTHER ->
                     Command(name, rows \cup {r}, [seq EXCEPT !["expenses"] = id],
                             <<Call("expenses", "INSERT", r)>>,
                             IF fault = "enqueue" THEN {1} ELSE {}, Ok(name, fault))

\* UPDATE ... WHERE id = ? touches no row when the id is unknown; the SELECT
\* that builds the payload then finds nothing and nothing is enqueued
update_expense ==
    \E id \in 1..MaxRows, fault \in {"none", "validation", "update", "select", "enqueue"} :
        LET old == Row("expenses", id)
            new == {Updated(r) : r \in old}
            name == "update_expense"
        IN  CASE fault = "validation" ->
                     Rejected(name, "validation")
                  [] fault = "update" ->
                     Command(name, rows, seq, <<>>, {}, Err(name, "db", fault))
                  [] fault = "select" ->
                     Command(name, (rows \ old) \cup new, seq, <<>>, {}, Ok(name, fault))
                  [] OTHER ->
                     /\ fault = "enqueue" => new # {}
                     /\ Command(name, (rows \ old) \cup new, seq,
                             [i \in 1..Cardinality(new) |-> Call("expenses", "UPDATE", ById(new)[i])],
                             IF fault = "enqueue" THEN {1} ELSE {}, Ok(name, fault))

delete_expense ==
    \E id \in 1..MaxRows, fault \in {"none", "update", "select", "enqueue"} :
        LET old == Row("expenses", id)
            new == {SoftDeleted(r) : r \in old}
            name == "delete_expense"
        IN  CASE fault = "update" ->
                 Command(name, rows, seq, <<>>, {}, Err(name, "db", fault))
              [] fault = "select" ->
                 Command(name, (rows \ old) \cup new, seq, <<>>, {}, Ok(name, fault))
              [] OTHER ->
                 /\ fault = "enqueue" => new # {}
                 /\ Command(name, (rows \ old) \cup new, seq,
                         [i \in 1..Cardinality(new) |-> Call("expenses", "DELETE", ById(new)[i])],
                         IF fault = "enqueue" THEN {1} ELSE {}, Ok(name, fault))

\* -------------------------------------------------- commands/customer.rs
\* none of the customer commands calls enqueue_sync
create_customer ==
    \E fault \in {"none", "insert"} :
        LET id == seq["customers"] + 1
            name == "create_customer"
        IN  IF fault = "insert"
            THEN Command(name, rows, seq, <<>>, {}, Err(name, "db", fault))
            ELSE Command(name, rows \cup {NewRow("customers", id, 0)},
                         [seq EXCEPT !["customers"] = id], <<>>, {}, OkVal(name, fault, id))

update_customer ==
    \E id \in 1..MaxRows, fault \in {"none", "update"} :
        LET old == Row("customers", id)
            name == "update_customer"
        IN  IF fault = "update"
            THEN Command(name, rows, seq, <<>>, {}, Err(name, "db", fault))
            ELSE Command(name, (rows \ old) \cup {Updated(r) : r \in old}, seq, <<>>, {},
                         Ok(name, fault))

\* DELETE FROM customers WHERE id = ?
delete_customer ==
    \E id \in 1..MaxRows, fault \in {"none", "delete"} :
        LET name == "delete_customer"
        IN  IF fault = "delete"
            THEN Command(name, rows, seq, <<>>, {}, Err(name, "db", fault))
            ELSE Command(name, rows \ Row("customers", id), seq, <<>>, {}, Ok(name, fault))

\* -------------------------------------------------- commands/order.rs
ItemsOf(S, order) == {r \in S : r.tbl = "order_items" /\ r.order_id = order}
NewItems(first, n, order) == {NewRow("order_items", first + k, order) : k \in 1..n}
Calls(table, op, S) == [i \in 1..Cardinality(S) |-> Call(table, op, ById(S)[i])]
AllCalls(calls) == 1..Len(calls)

\* the order and its lines are written in one transaction, then enqueued
create_order ==
    \E n \in 0..MaxItems, fault \in {"none", "validation", "tx", "select", "enqueue"} :
        LET id == seq["orders"] + 1
            o == NewRow("orders", id, 0)
            items == NewItems(seq["order_items"], n, id)
            calls == <<Call("orders", "INSERT", o)>> \o Calls("order_items", "INSERT", items)
            written == [seq EXCEPT !["orders"] = id, !["order_items"] = @ + n]
            name == "create_order"
        IN  CASE fault \in {"validation", "tx"} ->
                 Command(name, rows, seq, <<>>, {}, Err(name, fault, fault))
              [] fault = "select" ->
                 Command(name, rows \cup {o} \cup items, written, <<>>, {}, OkVal(name, fault, id))
              [] OTHER ->
                 Command(name, rows \cup {o} \cup items, written, calls,
                         IF fault = "enqueue" THEN AllCalls(calls) ELSE {}, OkVal(name, fault, id))

\* UPDATE orders, DELETE FROM order_items WHERE order_id = ?, INSERT the new
\* lines, in one transaction; then the order is enqueued as UPDATE and every
\* line it now has as INSERT
update_order ==
    \E id \in 1..MaxRows, n \in 0..MaxItems,
       fault \in {"none", "validation", "tx", "select", "enqueue"} :
        LET old == Row("orders", id)
            new == {Updated(r) : r \in old}
            items == NewItems(seq["order_items"], n, id)
            after == ((rows \ old) \ ItemsOf(rows, id)) \cup new \cup items
            calls == Calls("orders", "UPDATE", new) \o Calls("order_items", "INSERT", items)
            written == [seq EXCEPT !["order_items"] = @ + n]
            name == "update_order"
        IN  CASE fault \in {"validation", "tx"} ->
                 Command(name, rows, seq, <<>>, {}, Err(name, fault, fault))
              [] fault = "select" ->
                 Command(name, after, written, <<>>, {}, Ok(name, fault))
              [] OTHER ->
                 /\ fault = "enqueue" => calls # <<>>
                 /\ Command(name, after, written, calls,
                            IF fault = "enqueue" THEN AllCalls(calls) ELSE {}, Ok(name, fault))

\* soft delete of the order and of its lines, each its own statement
delete_order ==
    \E id \in 1..MaxRows, fault \in {"none", "update", "update_items", "select", "enqueue"} :
        LET old == Row("orders", id)
            new == {SoftDeleted(r) : r \in old}
            oldItems == ItemsOf(rows, id)
            newItems == {SoftDeleted(r) : r \in oldItems}
            calls == Calls("orders", "DELETE", new) \o Calls("order_items", "DELETE", newItems)
            name == "delete_order"
        IN  CASE fault = "update" ->
                 Command(name, rows, seq, <<>>, {}, Err(name, "db", fault))
              [] fault = "update_items" ->
                 Command(name, (rows \ old) \cup new, seq, <<>>, {}, Err(name, "db", fault))
              [] fault = "select" ->
                 Command(name, ((rows \ old) \ oldItems) \cup new \cup newItems, seq, <<>>, {},
                         Ok(name, fault))
              [] OTHER ->
                 /\ fault = "enqueue" => calls # <<>>
                 /\ Command(name, ((rows \ old) \ oldItems) \cup new \cup newItems, seq, calls,
                            IF fault = "enqueue" THEN AllCalls(calls) ELSE {}, Ok(name, fault))

\* -------------------------------------------------- commands/shop.rs
\* SELECT ... FROM shop_settings ORDER BY id DESC LIMIT 1
LatestShop(S) ==
    LET shops == {r \in S : r.tbl = "shop_settings"}
    IN  {r \in shops : \A q \in shops : q.id <= r.id}

save_shop_setup ==
    \E fault \in {"none", "logo", "insert", "select", "enqueue"} :
        LET id == seq["shop_settings"] + 1
            after == rows \cup {NewRow("shop_settings", id, 0)}
            written == [seq EXCEPT !["shop_settings"] = id]
            name == "save_shop_setup"
        IN  CASE fault = "logo" -> Rejected(name, "logo")
              [] fault = "insert" ->
                 Command(name, rows, seq, <<>>, {}, Err(name, "db", fault))
              [] fault = "select" ->
                 Command(name, after, written, <<>>, {}, Ok(name, fault))
              [] OTHER ->
                 Command(name, after, written, Calls("shop_settings", "INSERT", LatestShop(after)),
                         IF fault = "enqueue" THEN {1} ELSE {}, Ok(name, fault))

update_shop_settings ==
    \E fault \in {"none", "select_id", "logo", "update", "select", "enqueue"} :
        LET old == LatestShop(rows)
            after == (rows \ old) \cup {Updated(r) : r \in old}
            name == "update_shop_settings"
        IN  CASE fault = "select_id" ->
                 Command(name, rows, seq, <<>>, {}, Err(name, "db", fault))
              [] old = {} ->
                 /\ fault = "none"
                 /\ Command(name, rows, seq, <<>>, {},
                            Err(name, "No shop settings found to update", fault))
              [] fault \in {"logo", "update"} ->
                 Command(name, rows, seq, <<>>, {}, Err(name, fault, fault))
              [] fault = "select" ->
                 Command(name, after, seq, <<>>, {}, Ok(name, fault))
              [] OTHER ->
                 Command(name, after, seq, Calls("shop_settings", "UPDATE", LatestShop(after)),
                         IF fault = "enqueue" THEN {1} ELSE {}, Ok(name, fault))

\* ------------------------------------------------- process_sync_queue
InFlight(t) == task[t].pc \in {"item", "http"}

\* the invocation t returns: a spawned task ends, the loop records the time
\* (last_sync = Some(Instant::now())) and goes back to sleep
Return(t, tk) ==
    /\ task' = [tk EXCEPT ![t] = IdleTask]
    /\ IF t = LoopTask
       THEN last_sync' = now /\ wake_at' = now + SleepSecs
       ELSE UNCHANGED <<last_sync, wake_at>>

\* lock, load the config, INSERT the session, SELECT the items, set total_queued
PassBegin(t) ==
    /\ task[t].pc = "wait"
    /\ CanLock(lock)
    /\ ret' = NoRet
    /\ LET cs == {c \in load_sync_config : c.sync_enabled}
           c == CHOOSE x \in cs : TRUE
       IN  IF cs = {}
           THEN /\ Return(t, task)
                /\ UNCHANGED <<dbVars, lock, now, httpLog, crashes>>
           ELSE /\ \E items \in OrderedBy({e \in sync_queue : Eligible(e)}, "created_at") :
                     LET sid == seq["sync_sessions"] + 1
                     IN  /\ sync_sessions' = sync_sessions \cup
                               {[id |-> sid, started_at |-> now, finished_at |-> NoTime,
                                 total_queued |-> Len(items), total_synced |-> 0,
                                 total_failed |-> 0, status |-> "running"]}
                         /\ seq' = [seq EXCEPT !["sync_sessions"] = sid]
                         /\ task' = [task EXCEPT ![t] =
                               [pc |-> "item", url |-> c.supabase_url, session_id |-> sid,
                                items |-> items, idx |-> 1, req |-> 0,
                                total_synced |-> 0, total_failed |-> 0,
                                behind |-> task[t].behind]]
                /\ lock' = t
                /\ UNCHANGED <<sync_queue, sync_config, users, rows, last_sync, wake_at,
                               now, httpLog, crashes>>

\* the verb and the URL the match on item.operation builds
MethodDelete(op) ==
    IF op = "INSERT" THEN "POST" ELSE IF op = "DELETE" THEN "DELETE" ELSE "PATCH"
Method(op) == IF op = "INSERT" THEN "POST" ELSE "PATCH"

\* the Prefer header: only the POST carries one
MergeDuplicates == "resolution=merge-duplicates"
Prefer(op) == IF op = "INSERT" THEN MergeDuplicates ELSE NULL

RequestCountingAttempts(url, item) ==
    [qid |-> item.id, created_at |-> item.created_at, url |-> url,
     method |-> Method(item.operation), table |-> item.table_name,
     filter |-> IF item.operation = "INSERT" THEN 0 ELSE item.record_id,
     prefer |-> Prefer(item.operation),
     record_id |-> item.record_id,
     payload |-> [item.payload EXCEPT !.ver = item.retry_count], status |-> NoStatus]

\* filter is the id of ?id=eq.<record_id> (0: the table collection, no filter)
Request(url, item) ==
    [qid |-> item.id, created_at |-> item.created_at, url |-> url,
     method |-> Method(item.operation), table |-> item.table_name,
     filter |-> IF item.operation = "INSERT" THEN 0 ELSE item.record_id,
     prefer |-> Prefer(item.operation),
     record_id |-> item.record_id, payload |-> item.payload, status |-> NoStatus]

\* The remote the requests are made for (a PostgREST endpoint): a POST with
\* the merge-duplicates preference inserts the row or, when its primary key is
\* present, overwrites the columns given; a POST without it is refused when
\* the key is present; a PATCH overwrites the columns given in the rows the
\* filter selects.  R is the remote's rows, r a request.
Field(p, f, default) == IF f \in DOMAIN p THEN p[f] ELSE default
RemoteApply(R, r) ==
    LET hit == {x \in R : x.table = r.table
                          /\ x.id = IF r.method = "POST" THEN r.payload.id ELSE r.filter}
        Written(x) == [table |-> r.table, id |-> r.payload.id,
                       ver |-> Field(r.payload, "ver", x.ver),
                       deleted |-> Field(r.payload, "deleted", x.deleted)]
        fresh == [table |-> r.table, id |-> r.payload.id, ver |-> 0, deleted |-> FALSE]
    IN  CASE r.method = "POST" ->
               IF hit = {} THEN R \cup {Written(fresh)}
               ELSE IF r.prefer = MergeDuplicates
                    THEN (R \ hit) \cup {Written(x) : x \in hit}
                    ELSE R
          [] r.method = "PATCH" -> (R \ hit) \cup {Written(x) : x \in hit}
          [] OTHER -> R \ hit

\* the remote's rows of one table before a request arrives: none, one or two
RemoteMaxIds == 2
RemoteMaxVer == 3
RemoteRows ==
    {[table |-> "expenses", id |-> i, ver |-> v, deleted |-> d] :
        i \in 1..RemoteMaxIds, v \in 0..RemoteMaxVer, d \in BOOLEAN}
RemoteStates ==
    {{}} \cup {{x} : x \in RemoteRows}
         \cup {{x, y} : x \in {z \in RemoteRows : z.id = 1},
                        y \in {z \in RemoteRows : z.id # 1}}

SetStatus(q, id, st) == {IF e.id = id THEN [e EXCEPT !.status = st] ELSE e : e \in q}

\* top of the for loop: mark the item 'syncing', build the request and send it
PassSend(t) ==
    /\ task[t].pc = "item"
    /\ task[t].idx <= Len(task[t].items)
    /\ ret' = NoRet
    /\ LET item == task[t].items[task[t].idx]
       IN  /\ sync_queue' = SetStatus(sync_queue, item.id, "syncing")
           /\ IF item.operation \in Operations
              THEN /\ httpLog' = Append(httpLog, Request(task[t].url, item))
                   /\ task' = [task EXCEPT ![t].pc = "http", ![t].req = Len(httpLog) + 1]
              ELSE /\ task' = [task EXCEPT ![t].idx = @ + 1]
                   /\ UNCHANGED httpLog
    /\ UNCHANGED <<sync_sessions, sync_config, users, rows, seq, lock, last_sync,
                   wake_at, now, crashes>>

ClassifyNothing(e, resp) == e
ClassifySyncedOnly(e, resp) ==
    IF IsSuccess(resp) THEN [e EXCEPT !.status = "synced", !.synced_at = now] ELSE e

ClassifyKeepCount(e, resp) ==
    IF IsSuccess(resp)
    THEN [e EXCEPT !.status = "synced", !.synced_at = now]
    ELSE [e EXCEPT !.status = "failed", !.error_message = "body"]

\* the match on the result of send().await
Classify(e, resp) ==
    IF IsSuccess(resp)
    THEN [e EXCEPT !.status = "synced", !.synced_at = now]
    ELSE [e EXCEPT !.status = "failed", !.retry_count = @ + 1,
                   !.error_message = IF resp = TransportError THEN "transport" ELSE "body"]

PassRecv(t) ==
    /\ task[t].pc = "http"
    /\ ret' = NoRet
    /\ \E resp \in Responses :
         LET item == task[t].items[task[t].idx]
         IN  /\ httpLog' = [httpLog EXCEPT ![task[t].req].status = resp]
             /\ sync_queue' = {IF e.id = item.id THEN Classify(e, resp) ELSE e : e \in sync_queue}
             /\ task' = [task EXCEPT ![t].pc = "item", ![t].idx = @ + 1, ![t].req = 0,
                                     ![t].total_synced = IF IsSuccess(resp) THEN @ + 1 ELSE @,
                                     ![t].total_failed = IF IsSuccess(resp) THEN @ ELSE @ + 1]
    /\ UNCHANGED <<sync_sessions, sync_config, users, rows, seq, lock, last_sync,
                   wake_at, now, crashes>>

SessionStatusRunning(total_synced, total_failed) == "running"
SessionStatusAnyFailure(total_synced, total_failed) ==
    IF total_failed > 0 THEN "failed" ELSE "completed"
SessionStatus(total_synced, total_failed) ==
    IF total_failed > 0 /\ total_synced = 0 THEN "failed" ELSE "completed"

StillLocked(t) == t

\* the holder of the mutex once the guard `pool` of invocation t is dropped
\* at the return of process_sync_queue
Unlocked(t) == NoTask

\* after the for loop: finalize the session, cleanup_old_sync_data, unlock
PassFinish(t) ==
    /\ task[t].pc = "item"
    /\ task[t].idx > Len(task[t].items)
    /\ ret' = NoRet
    /\ LET tk == task[t]
           fin == {IF s.id = tk.session_id
                   THEN [s EXCEPT !.finished_at = now, !.total_synced = tk.total_synced,
                                  !.total_failed = tk.total_failed,
                                  !.status = SessionStatus(tk.total_synced, tk.total_failed)]
                   ELSE s : s \in sync_sessions}
           synced == {e \in sync_queue : e.status = "synced"}
       IN  /\ sync_sessions' \in KeepLatest(fin, "started_at")
           /\ \E keep \in KeepLatest(synced, "synced_at") :
                sync_queue' = (sync_queue \ synced) \cup keep
    /\ lock' = Unlocked(t)
    /\ Return(t, task)
    /\ UNCHANGED <<sync_config, users, rows, seq, now, httpLog, crashes>>

\* ---------------------------------------------------- start_sync_loop
\* config.sync_interval as u64: a negative i32 becomes a value above 2^63,
\* more seconds than any elapsed time (written here as the largest integer)
Forever == 2147483647
AsU64(i) == IF i < 0 THEN Forever ELSE i

should_sync(c) ==
    IF last_sync = NoTime THEN TRUE ELSE now - last_sync >= AsU64(c.sync_interval)

\* one wake-up of the loop: lock, load the config, decide, drop the lock
LoopTick ==
    /\ task[LoopTask].pc = "idle"
    /\ now >= wake_at
    /\ CanLock(lock)
    /\ ret' = NoRet
    /\ LET cs == {c \in load_sync_config : c.sync_enabled /\ should_sync(c)}
       IN  IF cs # {}
           THEN task' = [task EXCEPT ![LoopTask].pc = "wait"] /\ UNCHANGED wake_at
           ELSE wake_at' = now + SleepSecs /\ UNCHANGED task
    /\ UNCHANGED <<dbVars, lock, last_sync, now, httpLog, crashes>>

\* tauri::async_runtime::spawn(process_sync_queue)
IdleSlots == {t \in Spawned : task[t].pc = "idle"}
Spawn(tk) ==
    LET t == CHOOSE x \in IdleSlots : TRUE
    IN  [tk EXCEPT ![t].pc = "wait", ![t].behind = \E u \in Tasks : InFlight(u)]

trigger_sync_now ==
    /\ IdleSlots # {}
    /\ task' = Spawn(task)
    /\ ret' = Ok("trigger_sync_now", "none")
    /\ UNCHANGED <<dbVars, lock, last_sync, wake_at, now, httpLog, crashes>>

\* ------------------------------------------------- configuration commands
DeactivatedNone == sync_config
Deactivated == {[c EXCEPT !.is_active = FALSE] : c \in sync_config}

CurrentIntervalDefault(configs) == DefaultInterval

\* SELECT COALESCE(sync_interval, 30) FROM sync_config WHERE is_active = 1 LIMIT 1
CurrentInterval(configs) ==
    LET act == {c \in configs : c.is_active}
    IN  IF act = {} THEN DefaultInterval ELSE (CHOOSE c \in act : TRUE).sync_interval

NewConfig(id, url, interval) ==
    [id |-> id, supabase_url |-> url, is_active |-> TRUE, sync_enabled |-> TRUE,
     sync_interval |-> interval]

\* the UPDATE that deactivates, then the INSERT of the new active row:
\* the table and its id counter afterwards
Activate(url, interval, fault) ==
    CASE fault = "deactivate" -> [c |-> sync_config, n |-> seq["sync_config"]]
      [] fault = "insert" -> [c |-> Deactivated, n |-> seq["sync_config"]]
      [] OTHER -> [c |-> Deactivated \cup {NewConfig(seq["sync_config"] + 1, url, interval)},
                   n |-> seq["sync_config"] + 1]

save_sync_config ==
    /\ CanLock(lock)
    /\ \E url \in Urls, fault \in {"none", "select", "deactivate", "insert"} :
         LET name == "save_sync_config"
             a == Activate(url, CurrentInterval(sync_config), fault)
         IN  IF fault = "select"
             THEN ret' = Err(name, "db", fault) /\ UNCHANGED <<sync_config, seq>>
             ELSE /\ sync_config' = a.c
                  /\ seq' = [seq EXCEPT !["sync_config"] = a.n]
                  /\ ret' = IF fault = "none" THEN Ok(name, fault) ELSE Err(name, "db", fault)
    /\ UNCHANGED <<sync_queue, sync_sessions, users, rows, lock, task, last_sync,
                   wake_at, now, httpLog, crashes>>

Intervals == {SleepSecs, DefaultInterval}

update_sync_interval ==
    /\ CanLock(lock)
    /\ \E interval \in Intervals :
         sync_config' = {IF c.is_active THEN [c EXCEPT !.sync_interval = interval] ELSE c
                         : c \in sync_config}
    /\ ret' = Ok("update_sync_interval", "none")
    /\ UNCHANGED <<sync_queue, sync_sessions, users, rows, seq, lock, task, last_sync,
                   wake_at, now, httpLog, crashes>>

\* ------------------------------------------------------ queue maintenance
ResetKeepCount(e) == [e EXCEPT !.status = "pending", !.error_message = NULL]
ResetEntry(e) == [e EXCEPT !.status = "pending", !.retry_count = 0, !.error_message = NULL]

\* UPDATE sync_queue SET status = 'pending', ... WHERE status = 'failed'
retry_failed_items ==
    /\ CanLock(lock)
    /\ LET failed == {e \in sync_queue : e.status = "failed"}
       IN  /\ sync_queue' = (sync_queue \ failed) \cup {ResetEntry(e) : e \in failed}
           /\ ret' = OkVal("retry_failed_items", "none", Cardinality(failed))
    /\ UNCHANGED <<sync_sessions, sync_config, users, rows, seq, lock, task, last_sync,
                   wake_at, now, httpLog, crashes>>

SecsPerDay == 86400
Days == {0, 1}

\* the WHERE clauses of the two prune commands
PrunableEntryOrFailed(e) == e.status \in {"synced", "failed"}
PrunableEntry(e) == e.status = "synced"
PrunableSession(x) == x.status \in {"completed", "failed"}

\* DELETE ... WHERE status = 'synced' AND synced_at < datetime('now', '-N days')
clear_synced_items ==
    /\ CanLock(lock)
    /\ \E older_than_days \in Days, fault \in {"none", "delete"} :
         LET name == "clear_synced_items"
             gone == {e \in sync_queue : PrunableEntry(e)
                                         /\ e.synced_at < now - older_than_days * SecsPerDay}
         IN  IF fault = "delete"
             THEN /\ ret' = Err(name, "db", fault)
                  /\ UNCHANGED sync_queue
             ELSE /\ sync_queue' = sync_queue \ gone
                  /\ ret' = OkVal(name, "none", Cardinality(gone))
    /\ UNCHANGED <<sync_sessions, sync_config, users, rows, seq, lock, task, last_sync,
                   wake_at, now, httpLog, crashes>>

\* the sessions are deleted first, then the entries; a failure of the second
\* statement leaves the first done
clean_sync_data ==
    /\ CanLock(lock)
    /\ \E fault \in {"none", "sessions", "queue"} :
         LET name == "clean_sync_data"
             s == {x \in sync_sessions : PrunableSession(x)}
             q == {e \in sync_queue : PrunableEntry(e)}
         IN  IF fault = "sessions"
             THEN /\ ret' = Err(name, "db", fault)
                  /\ UNCHANGED <<sync_sessions, sync_queue>>
             ELSE IF fault = "queue"
             THEN /\ sync_sessions' = sync_sessions \ s
                  /\ ret' = Err(name, "db", fault)
                  /\ UNCHANGED sync_queue
             ELSE /\ sync_sessions' = sync_sessions \ s
                  /\ sync_queue' = sync_queue \ q
                  /\ ret' = OkVal(name, "none", Cardinality(s) + Cardinality(q))
    /\ UNCHANGED <<sync_config, users, rows, seq, lock, task, last_sync,
                   wake_at, now, httpLog, crashes>>

\* ------------------------------------------------------ master password
\* (a password_hash of NoHash stands for a users table without an owner row;
\* ret.arg is the current_password the command was given)
set_master_password ==
    /\ CanLock(lock)
    /\ \E current_password \in Passwords, new_master \in Secrets :
         LET name == "set_master_password"
         IN  IF users.password_hash = NoHash
             THEN /\ ret' = WithArg(Err(name, "No owner account found", "none"), current_password)
                  /\ UNCHANGED users
             ELSE IF BcryptVerify(current_password, users.password_hash)
             THEN /\ users' = [users EXCEPT !.master_password_hash = Argon2Hash(new_master)]
                  /\ ret' = WithArg(Ok(name, "none"), current_password)
             ELSE /\ ret' = WithArg(Err(name, "Invalid current password", "none"), current_password)
                  /\ UNCHANGED users
    /\ UNCHANGED <<sync_queue, sync_sessions, sync_config, rows, seq, lock, task,
                   last_sync, wake_at, now, httpLog, crashes>>

\* ---------------------------------------------- migration and full resync
MigrateTables == <<"customers", "orders", "order_items", "expenses", "shop_settings">>
FullSyncTables == <<"shop_settings", "customers", "orders", "order_items", "expenses">>

TableRows(table) == ById({r \in rows : r.tbl = table})

\* the payload of the re-enqueued rows: json_object('id', id) in the migration,
\* the json_object of every column in the full resync
IdPayload(r) == [id |-> r.id]
FullPayload(r) == [id |-> r.id, ver |-> r.ver, deleted |-> r.deleted]

RECURSIVE ReEnqueue(_, _, _)
ReEnqueue(tables, i, full) ==
    IF i > Len(tables) THEN <<>>
    ELSE LET rs == TableRows(tables[i])
         IN  [k \in 1..Len(rs) |->
                 [table |-> tables[i], op |-> "INSERT", record_id |-> rs[k].id,
                  payload |-> IF full THEN FullPayload(rs[k]) ELSE IdPayload(rs[k])]]
             \o ReEnqueue(tables, i + 1, full)

Unsynced == {[r EXCEPT !.synced = FALSE] : r \in rows}

ClearedNone(q) == q

\* DELETE FROM sync_queue WHERE status IN ('pending', 'failed')
ClearedPending(q) == {e \in q : e.status \notin {"pending", "failed"}}

\* the outbox and its id counter after the statements of trigger_full_sync,
\* and after those of migrate_to_new_database
FullSyncOutbox ==
    EnqueueAll([q |-> ClearedPending(sync_queue), n |-> seq["sync_queue"]],
               ReEnqueue(FullSyncTables, 1, TRUE), 1, {})
MigrateOutbox ==
    EnqueueAll([q |-> {ResetEntry(e) : e \in sync_queue}, n |-> seq["sync_queue"]],
               ReEnqueue(MigrateTables, 1, FALSE), 1, {})

\* the verification of the master password that gates the migration
MasterError(master_password) ==
    IF users.master_password_hash = NoHash THEN "No master password set"
    ELSE IF ~Argon2Verify(master_password, users.master_password_hash)
         THEN "Invalid master password"
         ELSE "none"

\* 1 verify, 2 replace the config (the interval is read after the old rows
\* were deactivated), 3 reset every entry, 4 mark the rows, 5 re-enqueue, 6 spawn
migrate_to_new_database ==
    /\ CanLock(lock)
    /\ \E master_password \in Secrets, url \in Urls,
          fault \in {"none", "deactivate", "insert", "reset"} :
         LET name == "migrate_to_new_database"
             denied == MasterError(master_password)
             a == Activate(url, CurrentInterval(Deactivated),
                           IF fault = "reset" THEN "none" ELSE fault)
             st == MigrateOutbox
         IN  IF denied # "none"
             THEN /\ fault = "none"
                  /\ ret' = WithArg(Err(name, denied, "none"), master_password)
                  /\ UNCHANGED <<sync_queue, sync_config, rows, seq, task>>
             ELSE IF fault # "none"
             THEN /\ sync_config' = a.c
                  /\ seq' = [seq EXCEPT !["sync_config"] = a.n]
                  /\ ret' = WithArg(Err(name, "db", fault), master_password)
                  /\ UNCHANGED <<sync_queue, rows, task>>
             ELSE /\ IdleSlots # {}
                  /\ sync_config' = a.c
                  /\ sync_queue' = st.q
                  /\ rows' = Unsynced
                  /\ seq' = [seq EXCEPT !["sync_config"] = a.n, !["sync_queue"] = st.n]
                  /\ task' = Spawn(task)
                  /\ ret' = WithArg(OkVal(name, "none", Cardinality(rows)), master_password)
    /\ UNCHANGED <<sync_sessions, users, lock, last_sync, wake_at, now, httpLog, crashes>>

trigger_full_sync ==
    /\ CanLock(lock)
    /\ \E fault \in {"none", "delete"} :
         LET name == "trigger_full_sync"
             calls == ReEnqueue(FullSyncTables, 1, TRUE)
             st == FullSyncOutbox
         IN  IF load_sync_config = {}
             THEN /\ fault = "none"
                  /\ ret' = Err(name, "No sync configuration found", "none")
                  /\ UNCHANGED <<sync_queue, rows, seq, task>>
             ELSE IF fault = "delete"
             THEN /\ ret' = Err(name, "db", fault)
                  /\ UNCHANGED <<sync_queue, rows, seq, task>>
             ELSE /\ IdleSlots # {}
                  /\ sync_queue' = st.q
                  /\ rows' = Unsynced
                  /\ seq' = [seq EXCEPT !["sync_queue"] = st.n]
                  /\ task' = Spawn(task)
                  /\ ret' = OkVal(name, "none", Len(calls))
    /\ UNCHANGED <<sync_sessions, sync_config, users, lock, last_sync, wake_at, now,
                   httpLog, crashes>>

\* ------------------------------------------------------ unclean shutdown
\* The process is killed and started again: the database is as the kill left
\* it, the mutex, the tasks and last_sync are new, and start_sync_loop begins
\* with its first sleep.
Restart ==
    /\ crashes' = crashes + 1
    /\ lock' = NoTask
    /\ task' = [t \in Tasks |-> IdleTask]
    /\ last_sync' = NoTime
    /\ wake_at' = now + SleepSecs
    /\ ret' = Ok("start", "none")
    /\ UNCHANGED <<dbVars, now, httpLog>>

\* ------------------------------------------------------------- the clock
Tick ==
    /\ now' = now + SleepSecs
    /\ ret' = NoRet
    /\ UNCHANGED <<dbVars, lock, task, last_sync, wake_at, httpLog, crashes>>

\* ------------------------------------------------------------- specifications
\* Spec: the engine.  One expense row and its outbox entries, the loop, the
\* spawned passes, the remote's answers and an unclean shutdown, with every
\* statement of the local store working.
Bound ==
    /\ seq["sync_queue"] <= MaxQueue
    /\ seq["sync_sessions"] <= MaxSessions
    /\ seq["sync_config"] <= MaxConfigs
    /\ seq["expenses"] <= MaxRows
    /\ \A r \in rows : r.ver <= MaxVer
    /\ Len(httpLog) <= MaxHttp
    /\ now <= MaxTime * SleepSecs
    /\ crashes <= MaxCrashes
    /\ ret.fault = "none"

Next ==
    \/ Tick /\ Bound'
    \/ create_expense /\ Bound'
    \/ update_expense /\ rows' # rows /\ Bound'
    \/ save_sync_config /\ Bound'
    \/ \E t \in Tasks : PassBegin(t) /\ Bound'
    \/ \E t \in Tasks : PassSend(t) /\ Bound'
    \/ \E t \in Tasks : PassRecv(t) /\ Bound'
    \/ \E t \in Tasks : PassFinish(t) /\ Bound'
    \/ LoopTick /\ Bound'
    \/ trigger_sync_now /\ Bound'
    \/ retry_failed_items /\ ret'.val > 0 /\ Bound'
    \/ Restart /\ Bound'

Spec == Init /\ [][Next]_vars

\* SpecOps: the operator's commands one after the other, with passes spawned
\* by hand and no clock, far enough for an entry to reach the retry cap.  The
\* inputs are narrowed to one URL per configuration id, one master secret and
\* a remote that answers every request.
OpsMaxQueue == 2
OpsMaxSessions == 5
OpsMaxHttp == 5
OpsMaxConfigs == 2

OpsBound ==
    /\ seq["sync_queue"] <= OpsMaxQueue
    /\ seq["sync_sessions"] <= OpsMaxSessions
    /\ seq["sync_config"] <= OpsMaxConfigs
    /\ seq["expenses"] <= MaxRows
    /\ Len(httpLog) <= OpsMaxHttp
    /\ \A c \in sync_config : c.supabase_url = IF c.id = 1 THEN "urlA" ELSE "urlB"
    /\ users.master_password_hash \in {NoHash, Argon2Hash("s1")}
    /\ \A i \in 1..Len(httpLog) : httpLog[i].status # TransportError
    /\ ret.fault = "none"
    /\ ret.ok

NextOps ==
    \/ create_expense /\ OpsBound'
    \/ save_sync_config /\ OpsBound'
    \/ set_master_password /\ users' # users /\ OpsBound'
    \/ trigger_sync_now /\ (\E e \in sync_queue : Eligible(e)) /\ OpsBound'
    \/ \E t \in Spawned : PassBegin(t) /\ OpsBound'
    \/ \E t \in Spawned : PassSend(t) /\ OpsBound'
    \/ \E t \in Spawned : PassRecv(t) /\ OpsBound'
    \/ \E t \in Spawned : PassFinish(t) /\ OpsBound'
    \/ retry_failed_items /\ ret'.val > 0 /\ OpsBound'
    \/ migrate_to_new_database /\ OpsBound'
    \/ trigger_full_sync /\ OpsBound'

SpecOps == Init /\ [][NextOps]_vars

\* SpecConf: the commands that replace the configuration and the master
\* secret, with every statement of theirs able to fail, around an outbox
\* that holds entries and a pass that pushes them.
ConfMaxConfigs == 3
ConfMaxQueue == 3
ConfMaxSessions == 2
ConfMaxHttp == 2

ConfBound ==
    /\ seq["sync_config"] <= ConfMaxConfigs
    /\ seq["sync_queue"] <= ConfMaxQueue
    /\ seq["sync_sessions"] <= ConfMaxSessions
    /\ seq["expenses"] <= MaxRows
    /\ Len(httpLog) <= ConfMaxHttp
    /\ \A c \in sync_config : c.supabase_url = IF c.id = 1 THEN "urlA" ELSE "urlB"
    /\ \A i \in 1..Len(httpLog) : httpLog[i].status # TransportError
    /\ ret.cmd = "create_expense" => ret.fault = "none"

NextConf ==
    \/ create_expense /\ ConfBound'
    \/ save_sync_config /\ ConfBound'
    \/ update_sync_interval /\ sync_config' # sync_config /\ ConfBound'
    \/ set_master_password /\ ConfBound'
    \/ migrate_to_new_database /\ ConfBound'
    \/ \E t \in Spawned : PassBegin(t) /\ ConfBound'
    \/ \E t \in Spawned : PassSend(t) /\ ConfBound'
    \/ \E t \in Spawned : PassRecv(t) /\ ConfBound'
    \/ \E t \in Spawned : PassFinish(t) /\ ConfBound'

SpecConf == Init /\ [][NextConf]_vars

\* SpecBiz: the business commands on every synced table, each with every
\* failure of the local store its code handles.
BizMaxQueue == 2
BizMaxVer == 2
BizMaxIds == 2

\* ids handed out over the business tables
IdsUsed ==
    seq["customers"] + seq["orders"] + seq["order_items"] + seq["expenses"]
    + seq["shop_settings"]

BizBound ==
    /\ seq["sync_queue"] <= BizMaxQueue
    /\ IdsUsed <= BizMaxIds
    /\ \A t \in Tables \ {"order_items"} : seq[t] <= MaxRows
    /\ seq["order_items"] <= MaxRows * MaxItems + 1
    /\ \A r \in rows : r.ver <= BizMaxVer

NextBiz ==
    \/ create_expense /\ BizBound'
    \/ update_expense /\ BizBound'
    \/ delete_expense /\ BizBound'
    \/ create_customer /\ BizBound'
    \/ update_customer /\ BizBound'
    \/ delete_customer /\ BizBound'
    \/ create_order /\ BizBound'
    \/ update_order /\ BizBound'
    \/ delete_order /\ BizBound'
    \/ save_shop_setup /\ BizBound'
    \/ update_shop_settings /\ BizBound'

SpecBiz == Init /\ [][NextBiz]_vars

\* SpecIdle: the loop and the manual trigger around a configuration table
\* that is empty, or holds only deactivated rows after a save_sync_config
\* that failed, or holds an active row.
IdleMaxTime == 2
IdleMaxConfigs == 2
IdleMaxSessions == 2
IdleMaxHttp == 2

IdleBound ==
    /\ now <= IdleMaxTime * SleepSecs
    /\ seq["sync_config"] <= IdleMaxConfigs
    /\ seq["sync_sessions"] <= IdleMaxSessions
    /\ seq["expenses"] <= MaxRows
    /\ Len(httpLog) <= IdleMaxHttp
    /\ \A c \in sync_config : c.supabase_url = "urlA"
    /\ ret.cmd = "create_expense" => ret.fault = "none"

NextIdle ==
    \/ Tick /\ IdleBound'
    \/ create_expense /\ IdleBound'
    \/ save_sync_config /\ IdleBound'
    \/ LoopTick /\ IdleBound'
    \/ trigger_sync_now /\ IdleBound'
    \/ \E t \in Tasks : PassBegin(t) /\ IdleBound'
    \/ \E t \in Tasks : PassSend(t) /\ IdleBound'
    \/ \E t \in Tasks : PassRecv(t) /\ IdleBound'
    \/ \E t \in Tasks : PassFinish(t) /\ IdleBound'

SpecIdle == Init /\ [][NextIdle]_vars

\* SpecLive: the loop alone with its clock, fairly scheduled.  The loop wakes
\* up when its sleep is over and a pass takes less than one step of the clock
\* (time passes only while the loop sleeps); the remote answers every request
\* and refuses an entry at most LiveMaxFails times.
LiveMaxTime == 13
LiveMaxFails == 1
LiveMaxConfigs == 1

LiveBound ==
    /\ now <= LiveMaxTime * SleepSecs
    /\ seq["sync_config"] <= LiveMaxConfigs
    /\ seq["expenses"] <= MaxRows
    /\ \A e \in sync_queue : e.retry_count <= LiveMaxFails
    /\ ret.fault = "none"

LoopAsleep == task[LoopTask].pc = "idle" /\ now < wake_at

LiveTick == Tick /\ LoopAsleep /\ LiveBound'
LiveLoopTick == LoopTick /\ LiveBound'
LiveBegin == PassBegin(LoopTask) /\ LiveBound'
LiveSend == PassSend(LoopTask) /\ LiveBound'
LiveRecv == PassRecv(LoopTask) /\ LiveBound'
LiveFinish == PassFinish(LoopTask) /\ LiveBound'

NextLive ==
    \/ LiveTick
    \/ create_expense /\ LiveBound'
    \/ save_sync_config /\ LiveBound'
    \/ LiveLoopTick
    \/ LiveBegin
    \/ LiveSend
    \/ LiveRecv
    \/ LiveFinish

SpecLive ==
    /\ Init /\ [][NextLive]_vars
    /\ WF_vars(LiveTick) /\ WF_vars(LiveLoopTick) /\ WF_vars(LiveBegin)
    /\ WF_vars(LiveSend) /\ WF_vars(LiveRecv) /\ WF_vars(LiveFinish)

\* SpecLock: the loop with its clock and passes spawned by hand, all wanting
\* the mutex.  tokio's Mutex serves its waiters in the order they asked, so a
\* waiter that can take the mutex again and again does take it (strong
\* fairness on the steps that lock); the other steps of a task are weakly
\* fair, and so is the remote's answer: every HTTP call returns.  The inputs
\* are narrowed to one URL and a remote that answers with a status.
LockMaxTime == 2
LockMaxSessions == 2

LockBound ==
    /\ now <= LockMaxTime * SleepSecs
    /\ seq["sync_config"] <= MaxConfigs
    /\ seq["expenses"] <= MaxRows
    /\ \A e \in sync_queue : e.retry_count <= LiveMaxFails
    /\ \A c \in sync_config : c.supabase_url = "urlA"
    /\ \A i \in 1..Len(httpLog) : httpLog[i].status # TransportError
    /\ ret.fault = "none"

LockTick == Tick /\ LoopAsleep /\ LockBound'
LockLoopTick == LoopTick /\ LockBound'
LockTrigger ==
    trigger_sync_now /\ seq["sync_sessions"] < LockMaxSessions /\ LockBound'
LockBegin(t) == PassBegin(t) /\ LockBound'
LockSend(t) == PassSend(t) /\ LockBound'
LockRecv(t) == PassRecv(t) /\ LockBound'
LockFinish(t) == PassFinish(t) /\ LockBound'

NextLock ==
    \/ LockTick
    \/ create_expense /\ LockBound'
    \/ save_sync_config /\ LockBound'
    \/ LockLoopTick
    \/ LockTrigger
    \/ \E t \in Tasks : LockBegin(t)
    \/ \E t \in Tasks : LockSend(t)
    \/ \E t \in Tasks : LockRecv(t)
    \/ \E t \in Tasks : LockFinish(t)

SpecLock ==
    /\ Init /\ [][NextLock]_vars
    /\ WF_vars(LockTick) /\ SF_vars(LockLoopTick)
    /\ \A t \in Tasks :
          /\ SF_vars(LockBegin(t)) /\ WF_vars(LockSend(t))
          /\ WF_vars(LockRecv(t)) /\ WF_vars(LockFinish(t))

\* SpecStall: SpecLive with a remote that need not answer.  The client is
\* reqwest::Client::new(), which sets no timeout, so nothing in the program
\* makes send().await return: the answer is the remote's step and has no
\* fairness condition.
SpecStall ==
    /\ Init /\ [][NextLive]_vars
    /\ WF_vars(LiveTick) /\ WF_vars(LiveLoopTick) /\ WF_vars(LiveBegin)
    /\ WF_vars(LiveSend) /\ WF_vars(LiveFinish)

\* SpecKeep: the sweep at work.  The run starts from a store that has seen
\* about KeepRows passes: one expense row updated again and again, its
\* entries all delivered, the sessions all completed, with up to KeepTie
\* rows sharing a timestamp; the process has just started.
KeepShort == 1
KeepTie == 2
KeepMaxNew == 2
KeepMaxHttp == 3

OldEntry(k, at) ==
    [id |-> k, table_name |-> "expenses", operation |-> IF k = 1 THEN "INSERT" ELSE "UPDATE",
     record_id |-> 1, payload |-> [id |-> 1, ver |-> k, deleted |-> FALSE],
     status |-> "synced", retry_count |-> 0, error_message |-> NULL,
     created_at |-> at, synced_at |-> at]

OldSession(k, at) ==
    [id |-> k, started_at |-> at, finished_at |-> at, total_queued |-> 1,
     total_synced |-> 1, total_failed |-> 0, status |-> "completed"]

InitKeep ==
    \E n, m \in (KeepRows - KeepShort)..KeepRows, g \in 1..KeepTie :
        /\ now = KeepRows + 1
        /\ sync_queue = {OldEntry(k, k \div g) : k \in 1..n}
        /\ sync_sessions = {OldSession(k, k \div g) : k \in 1..m}
        /\ sync_config = {NewConfig(1, "urlA", DefaultInterval)}
        /\ users = [password_hash |-> <<"bcrypt", "pw1">>, master_password_hash |-> NoHash]
        /\ rows = {[NewRow("expenses", 1, 0) EXCEPT !.ver = n]}
        /\ seq = [x \in SeqNames |->
                     CASE x = "sync_queue" -> n
                       [] x = "sync_sessions" -> m
                       [] x \in {"sync_config", "expenses"} -> 1
                       [] OTHER -> 0]
        /\ lock = NoTask
        /\ task = [t \in Tasks |-> IdleTask]
        /\ last_sync = NoTime
        /\ wake_at = now + SleepSecs
        /\ httpLog = <<>>
        /\ ret = NoRet
        /\ crashes = 0

KeepBound ==
    /\ seq["sync_queue"] <= KeepRows + KeepMaxNew
    /\ seq["sync_sessions"] <= KeepRows + KeepMaxNew
    /\ Len(httpLog) <= KeepMaxHttp
    /\ ret.fault = "none"

NextKeep ==
    \/ update_expense /\ rows' # rows /\ KeepBound'
    \/ trigger_sync_now /\ KeepBound'
    \/ \E t \in Spawned : PassBegin(t) /\ KeepBound'
    \/ \E t \in Spawned : PassSend(t) /\ KeepBound'
    \/ \E t \in Spawned : PassRecv(t) /\ KeepBound'
    \/ \E t \in Spawned : PassFinish(t) /\ KeepBound'

SpecKeep == InitKeep /\ [][NextKeep]_vars

\* SpecCap: one expense and a remote that may refuse every request, with
\* enough passes and requests for an entry to go past the retry cap if the
\* program let it.
CapMaxQueue == 2
CapMaxSessions == 7
CapMaxHttp == 7

CapBound ==
    /\ seq["sync_queue"] <= CapMaxQueue
    /\ seq["sync_sessions"] <= CapMaxSessions
    /\ seq["sync_config"] <= MaxConfigs
    /\ seq["expenses"] <= MaxRows
    /\ \A r \in rows : r.ver <= MaxVer
    /\ Len(httpLog) <= CapMaxHttp
    /\ \A i \in 1..Len(httpLog) : httpLog[i].status # TransportError
    /\ ret.fault = "none"

NextCap ==
    \/ create_expense /\ CapBound'
    \/ update_expense /\ rows' # rows /\ CapBound'
    \/ save_sync_config /\ CapBound'
    \/ trigger_sync_now /\ CapBound'
    \/ \E t \in Spawned : PassBegin(t) /\ CapBound'
    \/ \E t \in Spawned : PassSend(t) /\ CapBound'
    \/ \E t \in Spawned : PassRecv(t) /\ CapBound'
    \/ \E t \in Spawned : PassFinish(t) /\ CapBound'
    \/ retry_failed_items /\ ret'.val > 0 /\ CapBound'

SpecCap == Init /\ [][NextCap]_vars

\* SpecPrune: the two prune commands around an outbox that is being pushed,
\* with the clock, and an unclean shutdown that leaves a session running and
\* an entry syncing.  Only the prune statements may fail.
PruneMaxQueue == 2
PruneMaxSessions == 2
PruneMaxHttp == 2

PruneBound ==
    /\ seq["sync_queue"] <= PruneMaxQueue
    /\ seq["sync_sessions"] <= PruneMaxSessions
    /\ seq["sync_config"] <= MaxConfigs
    /\ seq["expenses"] <= MaxRows
    /\ \A r \in rows : r.ver <= MaxVer
    /\ Len(httpLog) <= PruneMaxHttp
    /\ \A i \in 1..Len(httpLog) : httpLog[i].status # TransportError
    /\ now <= MaxTime * SleepSecs
    /\ crashes <= MaxCrashes
    /\ ret.fault \in {"none", "delete", "sessions", "queue"}

NextPrune ==
    \/ Tick /\ PruneBound'
    \/ create_expense /\ PruneBound'
    \/ update_expense /\ rows' # rows /\ PruneBound'
    \/ save_sync_config /\ PruneBound'
    \/ trigger_sync_now /\ PruneBound'
    \/ \E t \in Spawned : PassBegin(t) /\ PruneBound'
    \/ \E t \in Spawned : PassSend(t) /\ PruneBound'
    \/ \E t \in Spawned : PassRecv(t) /\ PruneBound'
    \/ \E t \in Spawned : PassFinish(t) /\ PruneBound'
    \/ Restart /\ PruneBound'
    \/ clear_synced_items /\ PruneBound'
    \/ clean_sync_data /\ PruneBound'

SpecPrune == Init /\ [][NextPrune]_vars

\* SpecSecret: SpecConf from a store with or without an owner account (the
\* owner is registered once, before anything else is used).
InitSecret ==
    /\ sync_queue = {}
    /\ sync_sessions = {}
    /\ sync_config = {}
    /\ users \in {[password_hash |-> h, master_password_hash |-> NoHash] :
                      h \in {NoHash, <<"bcrypt", "pw1">>}}
    /\ rows = {}
    /\ seq = [n \in SeqNames |-> 0]
    /\ lock = NoTask
    /\ task = [t \in Tasks |-> IdleTask]
    /\ last_sync = NoTime
    /\ wake_at = SleepSecs
    /\ now = 0
    /\ httpLog = <<>>
    /\ ret = NoRet
    /\ crashes = 0

SpecSecret == InitSecret /\ [][NextConf]_vars

\* SpecPush: one expense created, updated and soft-deleted, and the passes that
\* push its entries to a remote that accepts, refuses or does not answer.
PushMaxQueue == 3
PushMaxSessions == 2
PushMaxHttp == 3
PushMaxVer == 3

PushBound ==
    /\ seq["sync_queue"] <= PushMaxQueue
    /\ seq["sync_sessions"] <= PushMaxSessions
    /\ seq["sync_config"] <= MaxConfigs
    /\ seq["expenses"] <= MaxRows
    /\ \A r \in rows : r.ver <= PushMaxVer
    /\ Len(httpLog) <= PushMaxHttp
    /\ ret.fault = "none"

NextPush ==
    \/ create_expense /\ PushBound'
    \/ update_expense /\ rows' # rows /\ PushBound'
    \/ delete_expense /\ rows' # rows /\ PushBound'
    \/ save_sync_config /\ PushBound'
    \/ trigger_sync_now /\ (\E e \in sync_queue : Eligible(e)) /\ PushBound'
    \/ \E t \in Spawned : PassBegin(t) /\ PushBound'
    \/ \E t \in Spawned : PassSend(t) /\ PushBound'
    \/ \E t \in Spawned : PassRecv(t) /\ PushBound'
    \/ \E t \in Spawned : PassFinish(t) /\ PushBound'

SpecPush == Init /\ [][NextPush]_vars

\* SpecForeign: SpecPush from a store in which another producer has left an
\* entry whose operation is none of the three.  (The CHECK on operation is part
\* of the SQLite schema of init_db; the Postgres backend's schema is not
\* created by this program.)
ForeignOperation == "UPSERT"
ForeignEntry ==
    [id |-> 1, table_name |-> "expenses", operation |-> ForeignOperation, record_id |-> 1,
     payload |-> [id |-> 1, ver |-> 1, deleted |-> FALSE], status |-> "pending",
     retry_count |-> 0, error_message |-> NULL, created_at |-> 0, synced_at |-> NoTime]

InitForeign ==
    /\ sync_queue = {ForeignEntry}
    /\ sync_sessions = {}
    /\ sync_config = {}
    /\ users = [password_hash |-> <<"bcrypt", "pw1">>, master_password_hash |-> NoHash]
    /\ rows = {}
    /\ seq = [n \in SeqNames |-> IF n = "sync_queue" THEN 1 ELSE 0]
    /\ lock = NoTask
    /\ task = [t \in Tasks |-> IdleTask]
    /\ last_sync = NoTime
    /\ wake_at = SleepSecs
    /\ now = 0
    /\ httpLog = <<>>
    /\ ret = NoRet
    /\ crashes = 0

SpecForeign == InitForeign /\ [][NextPush]_vars

\* SpecResync: rows of two synced tables, the configuration, the master
\* password, full resync and migration, and the passes they spawn.  The inputs
\* are narrowed as in SpecOps.
ResMaxQueue == 6
ResMaxSessions == 2
ResMaxHttp == 2
ResMaxConfigs == 2

ResBound ==
    /\ seq["sync_queue"] <= ResMaxQueue
    /\ seq["sync_sessions"] <= ResMaxSessions
    /\ seq["sync_config"] <= ResMaxConfigs
    /\ seq["expenses"] <= MaxRows
    /\ seq["customers"] <= MaxRows
    /\ \A r \in rows : r.ver <= MaxVer
    /\ Len(httpLog) <= ResMaxHttp
    /\ \A c \in sync_config : c.supabase_url = IF c.id = 1 THEN "urlA" ELSE "urlB"
    /\ users.master_password_hash \in {NoHash, Argon2Hash("s1")}
    /\ \A i \in 1..Len(httpLog) : httpLog[i].status # TransportError
    /\ ret.fault = "none"

NextResync ==
    \/ create_expense /\ ResBound'
    \/ create_customer /\ ResBound'
    \/ delete_expense /\ rows' # rows /\ ResBound'
    \/ save_sync_config /\ ResBound'
    \/ set_master_password /\ users' # users /\ ResBound'
    \/ trigger_full_sync /\ ResBound'
    \/ migrate_to_new_database /\ ResBound'
    \/ \E t \in Spawned : PassBegin(t) /\ ResBound'
    \/ \E t \in Spawned : PassSend(t) /\ ResBound'
    \/ \E t \in Spawned : PassRecv(t) /\ ResBound'
    \/ \E t \in Spawned : PassFinish(t) /\ ResBound'

SpecResync == Init /\ [][NextResync]_vars

\* ------------------------------------------------------------- claims on Spec
Syncing == {e \in sync_queue : e.status = "syncing"}
Running == {t \in Tasks : InFlight(t)}

\* C1: when the process has started again after an unclean shutdown, and
\* before the loop's first tick, no outbox entry is left in status 'syncing'
\* (every orphan was reset to 'pending').
C1_CrashRecovery == ret.cmd = "start" => Syncing = {}

\* C3: for two entries on the same record, the one created earlier first:
\* no request for the earlier entry (a retry included) comes after a request
\* for the later one, also when the process never crashed.
C3_OrderingAcrossSessions ==
    \A i, j \in 1..Len(httpLog) :
        (/\ crashes = 0
         /\ i < j
         /\ httpLog[i].table = httpLog[j].table
         /\ httpLog[i].record_id = httpLog[j].record_id)
        => httpLog[i].created_at <= httpLog[j].created_at

\* C4: at most one pass is in flight: the pass that has created its session
\* row and not yet finalized it holds the mutex, so no second pass has a
\* session row of its own or touches the outbox; without a crash at most one
\* session row is 'running'.
C4_OnePassInFlight ==
    /\ \A t \in Running : lock = t
    /\ Cardinality(Running) <= 1
    /\ crashes = 0 => Cardinality({x \in sync_sessions : x.status = "running"}) <= 1

\* a pass is waiting for an answer while another invocation waits for the mutex
C4_Witness ==
    \E t, u \in Tasks : t # u /\ task[t].pc = "http" /\ task[u].pc = "wait"

\* C5: the mutex is not held across an outbound HTTP call: no pass holds it
\* while it waits for the answer to a request.
C5_LockFreeDuringHttp == \A t \in Tasks : task[t].pc = "http" => lock # t

Ids(S) == {s.id : s \in S}
Finished(s) == s.status # "running"

\* C12: a session row appears only when a pass begins, one per pass and
\* 'running'; the step that ends the pass finalizes it to 'completed' or
\* 'failed' with finished_at set; a finalized row is never changed again.
C12_OneSessionPerPass ==
    [][/\ \A s \in sync_sessions :
             Finished(s) => \A s2 \in sync_sessions' : s2.id = s.id => s2 = s
       /\ \A s \in sync_sessions, s2 \in sync_sessions' :
             (s2.id = s.id /\ s2 # s) =>
                 (s2.status \in {"completed", "failed"} /\ s2.finished_at # NoTime)
       /\ \A t \in Tasks :
             (InFlight(t) /\ task'[t].pc = "idle" /\ crashes' = crashes) =>
                 \A s2 \in sync_sessions' : s2.id = task[t].session_id => Finished(s2)
       /\ LET new == {s2 \in sync_sessions' : s2.id \notin Ids(sync_sessions)}
              begun == {t \in Tasks : task[t].pc = "wait" /\ task'[t].pc = "item"}
          IN  /\ Cardinality(new) = Cardinality(begun)
              /\ Cardinality(new) <= 1
              /\ \A s2 \in new : s2.status = "running" /\ s2.finished_at = NoTime]_vars

\* a finalized session and a later pass running beside its row
C12_Witness ==
    /\ crashes = 0
    /\ \E s, r \in sync_sessions : Finished(s) /\ r.status = "running" /\ r.id > s.id

\* C13: a finalized session is 'failed' exactly when it counted a failure
\* and no success, and 'completed' otherwise.
C13_SessionStatus ==
    \A s \in sync_sessions :
        Finished(s) =>
            /\ s.status \in {"completed", "failed"}
            /\ s.status = "failed" <=> (s.total_failed > 0 /\ s.total_synced = 0)

\* a session that ended 'completed' with one success and one failure
C13_Witness ==
    \E s \in sync_sessions :
        s.status = "completed" /\ s.total_failed > 0 /\ s.total_synced > 0

\* C14: the step that handles the answer to a request: a 2xx answer makes
\* the entry 'synced' with synced_at set and retry_count as it was and counts
\* one success; any other answer, or none, makes it 'failed' with
\* retry_count one higher and error_message set and counts one failure.
C14_OutcomeClassification ==
    [][\A i \in 1..Len(httpLog) :
          (httpLog[i].status = NoStatus /\ httpLog'[i].status # NoStatus) =>
              \E t \in Tasks, e \in sync_queue, e2 \in sync_queue' :
                  /\ task[t].req = i
                  /\ e.id = httpLog[i].qid /\ e2.id = e.id
                  /\ IF httpLog'[i].status \in 200..299
                     THEN /\ e2.status = "synced" /\ e2.synced_at # NoTime
                          /\ e2.retry_count = e.retry_count
                          /\ task'[t].total_synced = task[t].total_synced + 1
                          /\ task'[t].total_failed = task[t].total_failed
                     ELSE /\ e2.status = "failed" /\ e2.error_message # NULL
                          /\ e2.retry_count = e.retry_count + 1
                          /\ task'[t].total_failed = task[t].total_failed + 1
                          /\ task'[t].total_synced = task[t].total_synced]_vars

\* one entry refused once and another accepted at its first request
C14_Witness ==
    \E e, f \in sync_queue :
        /\ e.status = "failed" /\ e.retry_count = 1 /\ e.error_message # NULL
        /\ f.status = "synced" /\ f.retry_count = 0

Enabled == {c \in load_sync_config : c.sync_enabled}
Done == {s \in sync_sessions : Finished(s)}
LastDone == CHOOSE x \in {s.finished_at : s \in Done} : \A s \in Done : s.finished_at <= x

\* C19: on a wake-up of the loop with an active, enabled configuration, in a
\* run without a crash, the loop starts a pass exactly when no session has
\* ended yet or the time since the last session ended, whoever started it, is
\* at least sync_interval.
C19_DispatcherTiming ==
    [][(/\ crashes = 0 /\ crashes' = 0
        /\ Enabled # {}
        /\ task[LoopTask].pc = "idle"
        /\ task'[LoopTask].pc = "wait" \/ wake_at' # wake_at)
       => (task'[LoopTask].pc = "wait"
              <=> \/ Done = {}
                  \/ \E c \in Enabled : now - LastDone >= c.sync_interval)]_vars

\* C20: an invocation spawned while a pass was in flight adds no session row
\* when its turn comes.
C20_TriggerCoalesced ==
    [][\A t \in Spawned :
          (task[t].pc = "wait" /\ task[t].behind /\ task'[t].pc # "wait")
              => seq'["sync_sessions"] = seq["sync_sessions"]]_vars

\* ---------------------------------------------------------- claims on SpecOps
Capped(e) == e.status = "failed" /\ e.retry_count >= MaxRetries

\* C2: an entry that is 'failed' with retry_count = 5 stays out of the
\* selection of the sessions after every step that is not retry_failed_items.
C2_RetryCap ==
    [][\A e \in sync_queue :
          Capped(e) => \/ ret'.cmd = "retry_failed_items"
                       \/ \A e2 \in sync_queue' : e2.id = e.id => ~Eligible(e2)]_vars

\* C10: every 'synced' entry has a request in the log that carried its
\* payload and was answered with a 2xx status.
C10_SyncedWasAcknowledged ==
    \A e \in sync_queue :
        e.status = "synced" =>
            \E i \in 1..Len(httpLog) : /\ httpLog[i].qid = e.id
                                       /\ httpLog[i].payload = e.payload
                                       /\ httpLog[i].status \in 200..299

\* an entry that is 'synced' after an attempt the remote refused
C10_Witness ==
    \E e \in sync_queue :
        /\ e.status = "synced"
        /\ \E i \in 1..Len(httpLog) : httpLog[i].qid = e.id /\ httpLog[i].status = 500

\* C15: an entry that is 'synced' keeps its status, its retry_count and its
\* payload in every step that leaves it in the outbox.
C15_SyncedImmutable ==
    [][\A e \in sync_queue :
          e.status = "synced" =>
              \A e2 \in sync_queue' :
                  e2.id = e.id => /\ e2.status = "synced"
                                  /\ e2.retry_count = e.retry_count
                                  /\ e2.payload = e.payload]_vars

\* --------------------------------------------------------- claims on SpecConf
\* C6: at most one configuration row is active, whatever save_sync_config and
\* migrate_to_new_database did or failed to do, and exactly one is active
\* when save_sync_config has just succeeded.
C6_SingleActiveConfig ==
    /\ Cardinality(ActiveConfigs) <= 1
    /\ (ret.cmd = "save_sync_config" /\ ret.ok) => Cardinality(ActiveConfigs) = 1

\* a second successful save_sync_config: two rows, one of them active
C6_Witness ==
    /\ ret.cmd = "save_sync_config" /\ ret.ok
    /\ Cardinality(sync_config) >= 2
    /\ \E c \in sync_config : ~c.is_active

Denials == {"No master password set", "Invalid master password"}

\* C7: migrate_to_new_database with a secret that is not the stored one, or
\* with no secret stored, returns an error and changes no table, starts no
\* pass and sends nothing.
C7_DeniedMigrationMutatesNothing ==
    [][(/\ ret'.cmd = "migrate_to_new_database"
        /\ \/ users.master_password_hash = NoHash
           \/ users.master_password_hash # Argon2Hash(ret'.arg))
       => (/\ ~ret'.ok
           /\ ret'.err \in Denials
           /\ UNCHANGED <<dbVars, task, lock, httpLog>>)]_vars

\* a migration refused for its secret, with a configuration and entries in place
C7_Witness ==
    /\ ret.cmd = "migrate_to_new_database"
    /\ ret.err = "Invalid master password"
    /\ ActiveConfigs # {}
    /\ \E e \in sync_queue : e.status = "synced"

\* ---------------------------------------------------------- claims on SpecBiz
\* C8: when the INSERT of enqueue_sync fails, the command still returns
\* success, its write to the business table stays, and the outbox is as it was.
C8_EnqueueNeverPropagates ==
    [][ret'.fault = "enqueue" =>
           (ret'.ok /\ rows' # rows /\ sync_queue' = sync_queue)]_vars

\* a command that succeeded and left a row, its enqueue having failed
C8_Witness ==
    /\ ret.fault = "enqueue" /\ ret.ok
    /\ rows # {}
    /\ sync_queue = {}

WriteCommands ==
    {"create_expense", "update_expense", "delete_expense", "create_customer",
     "update_customer", "create_order", "update_order", "delete_order",
     "save_shop_setup", "update_shop_settings"}

\* C9: a create, update or soft-delete command that succeeded and changed a
\* synced table, with the local store working, appended an outbox entry.
C9_EveryWriteEnqueues ==
    [][(/\ ret'.cmd \in WriteCommands
        /\ ret'.ok /\ ret'.fault = "none"
        /\ rows' # rows)
       => seq'["sync_queue"] > seq["sync_queue"]]_vars

\* --------------------------------------------------------- claims on SpecIdle
\* C18: while no configuration row is active and enabled, a wake-up of the
\* loop, a manual trigger and the invocation it spawns add no session row,
\* send no request and leave the outbox as it is.
C18_ConfigurationAbsence ==
    [][(/\ {c \in ActiveConfigs : c.sync_enabled} = {}
        /\ ret'.cmd \in {"none", "trigger_sync_now"})
       => UNCHANGED <<sync_sessions, sync_queue, httpLog, seq>>]_vars

\* the loop woke up and went back to sleep over a table of deactivated rows
\* and a pending entry
C18_Witness ==
    /\ ActiveConfigs = {} /\ sync_config # {}
    /\ sync_sessions = {}
    /\ \E e \in sync_queue : e.status = "pending"
    /\ now >= SleepSecs /\ wake_at > now

\* --------------------------------------------------------- claims on SpecLive
\* the time the loop needs at most for LiveMaxFails refusals and one success
LiveHorizon == LiveMaxTime * SleepSecs - DefaultInterval * (LiveMaxFails + 1)

Waiting(id) == \E e \in sync_queue : e.id = id /\ Eligible(e)
Synced(id) == \E e \in sync_queue : e.id = id /\ e.status = "synced"
Range(f) == {f[i] : i \in 1..Len(f)}

Sweeps == \E t \in Tasks : InFlight(t) /\ task'[t].pc = "idle" /\ crashes' = crashes

\* C16: after the step that ends a pass at most KeepRows session rows remain;
\* no row it removed started later than a row it kept; and of more than
\* KeepRows rows exactly KeepRows remain.
C16_SessionRetention ==
    [][Sweeps =>
          /\ Cardinality(sync_sessions') <= KeepRows
          /\ Ids(sync_sessions') \subseteq Ids(sync_sessions)
          /\ LET kept == Ids(sync_sessions')
             IN  \A d \in {x \in sync_sessions : x.id \notin kept}, k \in sync_sessions' :
                     d.started_at <= k.started_at
          /\ Cardinality(sync_sessions) > KeepRows
                => Cardinality(sync_sessions') = KeepRows]_vars

\* the sweep removed the oldest session row and left KeepRows
C16_Witness ==
    /\ Cardinality(sync_sessions) = KeepRows
    /\ 1 \notin Ids(sync_sessions)
    /\ \A s \in sync_sessions : Finished(s)

SyncedIn(q) == {e \in q : e.status = "synced"}

\* C17: the step that ends a pass removes only 'synced' entries, none that
\* was synced later than a 'synced' entry it kept, leaves KeepRows of them
\* when there were more, removes none when there were not, and changes no
\* entry it keeps.
C17_OutboxRetention ==
    [][Sweeps =>
          /\ sync_queue' \subseteq sync_queue
          /\ \A d \in sync_queue \ sync_queue' :
                /\ d.status = "synced"
                /\ \A k \in SyncedIn(sync_queue') : d.synced_at <= k.synced_at
          /\ IF Cardinality(SyncedIn(sync_queue)) > KeepRows
             THEN Cardinality(SyncedIn(sync_queue')) = KeepRows
             ELSE sync_queue' = sync_queue]_vars

\* the sweep removed the oldest 'synced' entry and kept a 'failed' one
C17_Witness ==
    /\ Cardinality(SyncedIn(sync_queue)) = KeepRows
    /\ 1 \notin Ids(sync_queue)
    /\ \E e \in sync_queue : e.status = "failed"
    /\ \A t \in Tasks : task[t].pc = "idle"

\* ------------------------------------------------- the session's snapshot
\* C21: the entries a session dispatches are fixed by one evaluation of the
\* pending/failed filter when it begins: the list is exactly the eligible
\* entries of that moment in ascending created_at order, it never changes
\* while the session runs, and each request the session sends is for the
\* next entry of that list, so no entry enqueued later is dispatched by it.
C21_SnapshotAtStart ==
    [][\A t \in Tasks :
          /\ (task[t].pc = "wait" /\ task'[t].pc = "item") =>
                LET items == task'[t].items
                IN  /\ Range(items) = {e \in sync_queue : Eligible(e)}
                    /\ Len(items) = Cardinality({e \in sync_queue : Eligible(e)})
                    /\ \A i, j \in 1..Len(items) :
                          i < j => items[i].created_at <= items[j].created_at
                    /\ task'[t].idx = 1
          /\ (InFlight(t) /\ task'[t].pc \in {"item", "http"}) =>
                /\ task'[t].items = task[t].items
                /\ task'[t].idx \in {task[t].idx, task[t].idx + 1}
          /\ (task[t].pc = "item" /\ task'[t].pc = "http") =>
                /\ Len(httpLog') = Len(httpLog) + 1
                /\ httpLog'[Len(httpLog')].qid = task[t].items[task[t].idx].id
                /\ task'[t].idx = task[t].idx
          /\ (\A u \in Tasks : ~(task[u].pc = "item" /\ task'[u].pc = "http")) =>
                Len(httpLog') = Len(httpLog)]_vars

\* a session is sending the second of two entries created at different times,
\* the earlier one first
C21_Witness ==
    \E t \in Tasks :
        /\ task[t].pc = "http"
        /\ task[t].idx = 2
        /\ task[t].items[1].created_at < task[t].items[2].created_at
        /\ httpLog[Len(httpLog)].qid = task[t].items[2].id
        /\ \E i \in 1..Len(httpLog) - 1 : httpLog[i].qid = task[t].items[1].id

\* ------------------------------------------------------ retry_failed_items
\* C22: retry_failed_items sets every 'failed' entry to 'pending' with
\* retry_count 0 and no error message, returns how many it reset, and leaves
\* every 'pending', 'syncing' and 'synced' entry as it was.
C22_RetryFailed ==
    [][ret'.cmd = "retry_failed_items" =>
          LET failed == {e \in sync_queue : e.status = "failed"}
          IN  /\ ret'.ok
              /\ ret'.val = Cardinality(failed)
              /\ Cardinality(sync_queue') = Cardinality(sync_queue)
              /\ \A e \in sync_queue \ failed : e \in sync_queue'
              /\ \A e \in failed :
                    [e EXCEPT !.status = "pending", !.retry_count = 0,
                              !.error_message = NULL] \in sync_queue'
              /\ {e \in sync_queue' : e.status = "failed"} = {}]_vars

\* the command has just reset a refused entry beside one a killed pass left
\* 'syncing'
C22_Witness ==
    /\ ret.cmd = "retry_failed_items"
    /\ ret.val = 1
    /\ \E e \in sync_queue : e.status = "syncing"
    /\ \E e \in sync_queue : e.status = "pending" /\ e.retry_count = 0

\* ------------------------------------------------------ claims on SpecResync
Pending(q) == {e \in q : e.status = "pending"}

\* C23: when trigger_full_sync has succeeded, and before the pass it spawned
\* runs, no entry is 'failed', the 'pending' entries are exactly one INSERT
\* entry per row of the synced tables carrying the row's present content (so
\* no table and record_id has two pending entries), every row is marked
\* unsynced, and a pass has been spawned.
C23_FullResync ==
    [][(ret'.cmd = "trigger_full_sync" /\ ret'.ok) =>
          /\ {e \in sync_queue' : e.status = "failed"} = {}
          /\ Cardinality(Pending(sync_queue')) = Cardinality(rows')
          /\ \A r \in rows' :
                \E e \in Pending(sync_queue') :
                    /\ e.table_name = r.tbl
                    /\ e.record_id = r.id
                    /\ e.operation = "INSERT"
                    /\ e.payload = [id |-> r.id, ver |-> r.ver, deleted |-> r.deleted]
          /\ rows' = {[r EXCEPT !.synced = FALSE] : r \in rows}
          /\ ret'.val = Cardinality(rows)
          /\ \E t \in Spawned : task[t].pc = "idle" /\ task'[t].pc = "wait"]_vars

\* a full resync has just replaced a refused entry and re-enqueued the rows of
\* two tables
C23_Witness ==
    /\ ret.cmd = "trigger_full_sync"
    /\ ret.ok
    /\ ret.val = 2
    /\ \E e \in sync_queue : e.status = "synced"
    /\ \E s \in sync_sessions : s.total_failed > 0
    /\ {e.table_name : e \in Pending(sync_queue)} = {"expenses", "customers"}

\* what an entry says, apart from its id and its times
Content(q) ==
    {[table_name |-> e.table_name, operation |-> e.operation, record_id |-> e.record_id,
      payload |-> e.payload, status |-> e.status] : e \in q}

\* C24: a migration with the correct secret leaves the outbox a full resync
\* from the same state would leave: the same number of entries, with the same
\* tables, operations, record ids, payloads and statuses.
C24_MigrationAsFullResync ==
    [][(ret'.cmd = "migrate_to_new_database" /\ ret'.ok) =>
          /\ Content(sync_queue') = Content(FullSyncOutbox.q)
          /\ Cardinality(sync_queue') = Cardinality(FullSyncOutbox.q)]_vars

\* ------------------------------------------------- claims on SpecConf, continued
\* C25: save_sync_config keeps the sync interval: the configuration it
\* activates has the sync_interval of the configuration that was active
\* before the call, whatever update_sync_interval had set, and 30 when none
\* was active.
C25_IntervalPreserved ==
    [][(ret'.cmd = "save_sync_config" /\ ret'.ok) =>
          LET before == {c.sync_interval : c \in ActiveConfigs}
              new == {c \in sync_config' : c.is_active}
          IN  /\ new # {}
              /\ \A c \in new :
                    /\ c.id \notin {d.id : d \in sync_config}
                    /\ IF before = {} THEN c.sync_interval = DefaultInterval
                       ELSE c.sync_interval \in before]_vars

\* a save has just activated a new configuration that carries the interval
\* update_sync_interval gave the previous one
C25_Witness ==
    /\ ret.cmd = "save_sync_config" /\ ret.ok
    /\ \E c \in ActiveConfigs, d \in sync_config :
          /\ d.id < c.id
          /\ c.sync_interval = SleepSecs
          /\ d.sync_interval = SleepSecs

\* C26: activation is atomic: when save_sync_config, or the replacement of
\* the configuration in migrate_to_new_database, fails, a configuration that
\* was active before the call is still active after it.
C26_ActivationAtomic ==
    [][(/\ ret'.cmd \in {"save_sync_config", "migrate_to_new_database"}
        /\ ~ret'.ok
        /\ ActiveConfigs # {})
       => \E c \in ActiveConfigs : c \in sync_config']_vars

\* ------------------------------------------------------ claims on SpecStall
RunningSession(id) == \E s \in sync_sessions : s.id = id /\ s.status = "running"
FinalizedSession(id) == \E s \in sync_sessions : s.id = id /\ Finished(s)

\* C27: every session that has started is finalized in the end, also when
\* the remote never answers a request: the call ends by itself and the
\* session, with the mutex it holds, does not stay in flight forever.
C27_SessionsFinalized ==
    \A id \in 1..LiveMaxTime : RunningSession(id) ~> FinalizedSession(id)

\* ------------------------------------------------------ claims on SpecPush
\* C28: an INSERT entry is sent as a POST to the collection of its table
\* with the merge-duplicates preference, an UPDATE entry and a DELETE entry as
\* a PATCH filtered by the entry's record_id, each with the entry's payload as
\* the body; no request ever uses the DELETE verb.
C28_PushProtocol ==
    /\ [][\A t \in Tasks :
             (task[t].pc = "item" /\ task'[t].pc = "http") =>
                 LET item == task[t].items[task[t].idx]
                     r == httpLog'[Len(httpLog')]
                 IN  /\ r.table = item.table_name
                     /\ r.payload = item.payload
                     /\ r.url = task[t].url
                     /\ item.operation = "INSERT" =>
                           r.method = "POST" /\ r.filter = 0 /\ r.prefer = MergeDuplicates
                     /\ item.operation \in {"UPDATE", "DELETE"} =>
                           r.method = "PATCH" /\ r.filter = item.record_id]_vars
    /\ [](\A i \in 1..Len(httpLog) : httpLog[i].method \in {"POST", "PATCH"})

\* the entries of a created, updated and deleted expense have all been sent
C28_Witness ==
    \E i, j, k \in 1..Len(httpLog) :
        /\ httpLog[i].method = "POST"
        /\ httpLog[j].method = "PATCH" /\ ~httpLog[j].payload.deleted
        /\ httpLog[k].method = "PATCH" /\ httpLog[k].payload.deleted

\* C29: replay is idempotent: when the request of an entry is delivered a
\* second time to the same remote (the retry after a failure that left the
\* first delivery in doubt), the remote's rows are what the first delivery
\* alone left, whatever they were before.
C29_IdempotentReplay ==
    \A i, j \in 1..Len(httpLog) :
        (i < j /\ httpLog[i].qid = httpLog[j].qid /\ httpLog[i].url = httpLog[j].url) =>
            \A R \in RemoteStates :
                RemoteApply(RemoteApply(R, httpLog[i]), httpLog[j]) = RemoteApply(R, httpLog[i])

\* an UPDATE entry whose first request got no answer has been sent again, and
\* its request changes a remote that holds the row
C29_Witness ==
    \E i, j \in 1..Len(httpLog) :
        /\ i < j
        /\ httpLog[i].qid = httpLog[j].qid
        /\ httpLog[i].url = httpLog[j].url
        /\ httpLog[i].status = TransportError
        /\ httpLog[i].method = "PATCH"
        /\ \E R \in RemoteStates : RemoteApply(R, httpLog[i]) # R

\* ------------------------------------------------------ claims on SpecForeign
\* the step of the loop body that skips an entry of unknown operation
Skips(t) ==
    /\ task[t].pc = "item"
    /\ task[t].idx <= Len(task[t].items)
    /\ task[t].items[task[t].idx].operation \notin Operations
    /\ task'[t].idx = task[t].idx + 1

C31_SetMasterSecret ==
    [][ret'.cmd = "set_master_password" =>
          /\ users'.password_hash = users.password_hash
          /\ UNCHANGED <<sync_queue, sync_sessions, sync_config, rows, seq>>
          /\ (users.password_hash = NoHash \/ users.password_hash # <<"bcrypt", ret'.arg>>)
                => (~ret'.ok /\ users' = users)
          /\ ~ret'.ok => users' = users]_vars

\* a wrong login password has just been refused with a master secret in place
C31_Witness ==
    /\ ret.cmd = "set_master_password"
    /\ ret.err = "Invalid current password"
    /\ users.master_password_hash # NoHash

\* ------------------------------------------------ claims on SpecOps, continued
\* a step of a pass that has begun
PassStep == \E t \in Tasks : InFlight(t) /\ task'[t] # task[t]

\* C32: an entry changes its status only from 'pending' or 'failed' to
\* 'syncing' and from 'syncing' to 'synced' or 'failed', in a step of a pass,
\* or from 'failed' to 'pending' by retry_failed_items; nothing else changes
\* the status of an entry.
C32_StatusTransitions ==
    [][\A e \in sync_queue, e2 \in sync_queue' :
          (e2.id = e.id /\ e2.status # e.status) =>
              \/ /\ PassStep
                 /\ <<e.status, e2.status>> \in
                       {<<"pending", "syncing">>, <<"failed", "syncing">>,
                        <<"syncing", "synced">>, <<"syncing", "failed">>}
              \/ /\ ret'.cmd = "retry_failed_items"
                 /\ <<e.status, e2.status>> = <<"failed", "pending">>]_vars

\* ------------------------------------------------ claims on Spec, continued
\* C33: while the process has never been killed, at most one outbox entry is
\* 'syncing': a pass resolves the entry it marked before it marks the next.
C33_OneSyncing == crashes = 0 => Cardinality(Syncing) <= 1

\* a pass waits for the answer to its second entry, the first one resolved
C33_Witness ==
    /\ crashes = 0
    /\ Cardinality(Syncing) = 1
    /\ \E t \in Tasks :
          /\ task[t].pc = "http"
          /\ task[t].idx = 2
          /\ \E e \in sync_queue :
                e.id = task[t].items[1].id /\ e.status \in {"synced", "failed"}

\* C34: when a pass finalizes its session (the process not being killed),
\* every entry the session selected that is still in the outbox is 'synced'
\* or 'failed'; none is left 'syncing'.
C34_NoneLeftSyncing ==
    [][\A t \in Tasks :
          (InFlight(t) /\ task'[t].pc = "idle" /\ crashes' = crashes) =>
              \A i \in 1..Len(task[t].items), e \in sync_queue' :
                  e.id = task[t].items[i].id => e.status \in {"synced", "failed"}]_vars

\* a session of two entries has been finalized, one delivered and one refused
C34_Witness ==
    /\ crashes = 0
    /\ \A t \in Tasks : ~InFlight(t)
    /\ \E s \in sync_sessions : Finished(s) /\ s.total_queued = 2
    /\ \E e, f \in sync_queue : e.status = "synced" /\ f.status = "failed"
    /\ Syncing = {}

\* C35: a finalized session has total_synced + total_failed = total_queued,
\* and the total_queued a session starts with is the number of entries that
\* are 'pending', or 'failed' below the cap, at that moment.
C35_SessionAccounting ==
    /\ [](\A s \in sync_sessions :
             Finished(s) => s.total_synced + s.total_failed = s.total_queued)
    /\ [][\A s2 \in sync_sessions' :
             s2.id \notin Ids(sync_sessions) =>
                 s2.total_queued =
                     Cardinality({e \in sync_queue :
                                     \/ e.status = "pending"
                                     \/ e.status = "failed" /\ e.retry_count < MaxRetries})]_vars

\* a second session has counted and delivered the entry the first one failed
C35_Witness ==
    \E s, r \in sync_sessions :
        /\ s.id < r.id
        /\ s.total_queued = 1 /\ s.total_failed = 1
        /\ Finished(r) /\ r.total_queued = 1 /\ r.total_synced = 1

\* ------------------------------------------------------ claims on SpecCap
\* C36: every outbox entry has 0 <= retry_count <= 5; a 'pending' entry has
\* retry_count 0 and a 'failed' entry has retry_count at least 1.
C36_RetryCountBounds ==
    \A e \in sync_queue :
        /\ 0 <= e.retry_count /\ e.retry_count <= MaxRetries
        /\ e.status = "pending" => e.retry_count = 0
        /\ e.status = "failed" => e.retry_count >= 1

\* an entry at the cap, and a later pass that selected nothing
C36_Witness ==
    /\ \E e \in sync_queue : e.status = "failed" /\ e.retry_count = MaxRetries
    /\ \E s \in sync_sessions :
          Finished(s) /\ s.total_queued = 0 /\ s.id > MaxRetries

\* ------------------------------------------------------ claims on SpecLock
\* the loop has slept its five seconds and asks for the mutex
LoopAwake == task[LoopTask].pc = "idle" /\ now >= wake_at

C38_EndpointOfSession ==
    [][\A t \in Tasks :
          /\ (task[t].pc = "wait" /\ task'[t].pc = "item") =>
                {task'[t].url} = {c.supabase_url : c \in ActiveConfigs}
          /\ (InFlight(t) /\ task'[t].pc \in {"item", "http"}) =>
                task'[t].url = task[t].url /\ sync_config' = sync_config
          /\ (task[t].pc = "item" /\ task'[t].pc = "http") =>
                LET r == httpLog'[Len(httpLog')]
                IN  /\ r.url = task[t].url
                    /\ {r.url} = {c.supabase_url : c \in ActiveConfigs}
                    /\ \A c \in sync_config \ ActiveConfigs :
                          c.supabase_url # task[t].url => r.url # c.supabase_url]_vars

\* an entry the migration re-enqueued has been sent to the new URL, after a
\* request to the old one
C38_Witness ==
    \E i, k \in 1..Len(httpLog) :
        /\ k < i
        /\ httpLog[k].url = "urlA"
        /\ httpLog[i].url = "urlB"
        /\ httpLog[i].payload = [id |-> 1]

\* C39: a migration that succeeds while a configuration is active activates a
\* configuration with the sync_interval of the one that was active before.
C39_MigrationKeepsInterval ==
    [][(/\ ret'.cmd = "migrate_to_new_database"
        /\ ret'.ok
        /\ ActiveConfigs # {}) =>
          \A c \in {x \in sync_config' : x.is_active} :
              c.sync_interval \in {d.sync_interval : d \in ActiveConfigs}]_vars

\* ------------------------------------------------------ claims on SpecPrune
\* C40: clean_sync_data removes only sessions that are completed or failed and
\* entries that are synced, clear_synced_items removes only synced entries and
\* no session; neither adds or changes a row, so a running session and a
\* pending, syncing or failed entry are still there afterwards.
C40_PruneKeepsUndelivered ==
    [][ret'.cmd \in {"clean_sync_data", "clear_synced_items"} =>
          /\ sync_queue' \subseteq sync_queue
          /\ sync_sessions' \subseteq sync_sessions
          /\ \A e \in sync_queue \ sync_queue' : e.status = "synced"
          /\ \A x \in sync_sessions \ sync_sessions' : x.status \in {"completed", "failed"}
          /\ \A e \in sync_queue :
                e.status \in {"pending", "syncing", "failed"} => e \in sync_queue'
          /\ \A x \in sync_sessions : x.status = "running" => x \in sync_sessions'
          /\ ret'.cmd = "clear_synced_items" => sync_sessions' = sync_sessions]_vars

\* clean_sync_data has removed rows and left a running session and an entry
\* that was being pushed when the process was killed
C40_Witness ==
    /\ ret.cmd = "clean_sync_data"
    /\ ret.val > 0
    /\ \E x \in sync_sessions : x.status = "running"
    /\ \E e \in sync_queue : e.status = "syncing"

====
